---- MODULE Spec2Model ----
(***************************************************************************)
(* State-machine model of the MediaSearch ingest / orchestrator / publish  *)
(* / search pipeline.  The database is the local PostgreSQL adapter: every *)
(* adapter method runs its statement on the pool (autocommit), so every    *)
(* statement is one atomic step and every state of the model is a state a  *)
(* concurrent reader can observe.                                          *)
(***************************************************************************)
EXTENDS Integers, Sequences, FiniteSets, TLC

\* ------------------------------------------------------------------ bounds
MaxClock == 1          \* Date.now() ranges over 0..MaxClock
MaxVersions == 2       \* asset_versions rows (ObjectCreated events that add one)
MaxRemovals == 1       \* ObjectRemoved events that find their asset
MaxFaults == 1         \* injected failures (ASR, embedder, database)
MaxSegs == 1           \* segments in one ASR result
MaxIngestFaults == 1   \* injected failures of the ingest handler
MaxDuplicates == 1     \* enqueues of an idempotency key that was enqueued before
MaxRetryFaults == 5    \* injected failures of the jobs of one version, up to the DLQ
MaxTriage == 1              \* calls of the triage service
MaxPauses == 1         \* calls of pause()
MaxKeyFaults == 3      \* injected failures around a triage retry
JitterSteps == 2       \* Math.random() ranges over k / JitterSteps, k < JitterSteps

\* ------------------------------------------------------- program constants
MAX_RETRY_ATTEMPTS == 5
BASE_DELAY_MS == 1000
MAX_DELAY_MS == 300000
Word16 == 65536
HalfWord16 == 32768

\* ------------------------------------------------------------ value spaces
NULL == [null |-> TRUE]

Handlers == {"h1"}
\* the orchestrator's concurrent job slots; a job is taken by the first free one
Workers == {1, 2}

\* object keys: one media file and one file that is not a media file
Keys == {"hello.wav", "notes.txt"}

Ext(k) == IF k \in {"hello.wav", "copy.wav"} THEN "wav" ELSE "txt"

SUPPORTED_FORMATS == {"wav", "mp3", "aac", "flac", "mp4", "mov", "mxf"}

isSupportedMediaFormat(filename) == Ext(filename) \in SUPPORTED_FORMATS

\* the keys an asset can exist for
MediaKeys == { k \in Keys : isSupportedMediaFormat(k) }

\* the metadata the object store can return for an object: the store is
\* written by its users at any time, so a read returns any of these
\* (etag as its char codes, "E1" and "E2")
Objects ==
  { [etag |-> <<69, 49>>, size |-> 1024, lastModified |-> 0],
    [etag |-> <<69, 50>>, size |-> 2048, lastModified |-> 1] }

Texts == {"hello"}

\* --------------------------------------------------------- computeVersionId
RECURSIVE Dec(_)
\* Number -> decimal string (char codes), as template-literal interpolation
Dec(n) == IF n < 10 THEN <<48 + n>> ELSE Dec(n \div 10) \o <<48 + (n % 10)>>

\* `${etag}:${size}:${mtime.getTime()}`
VersionData(etag, size, mtime) == etag \o <<58>> \o Dec(size) \o <<58>> \o Dec(mtime)

\* one round of hash = ((hash << 5) - hash) + char; hash = hash & hash,
\* on the 32-bit word held as two 16-bit halves <<hi, lo>>
HashStep(h, c) ==
  LET t == h[2] * 31 + c
  IN  << (h[1] * 31 + (t \div Word16)) % Word16, t % Word16 >>

RECURSIVE HashFrom(_, _, _)
HashFrom(h, data, i) ==
  IF i > Len(data) THEN h ELSE HashFrom(HashStep(h, data[i]), data, i + 1)

\* Math.abs of the signed 32-bit word, again as halves
Abs32(h) ==
  IF h[1] < HalfWord16 THEN h
  ELSE IF h[2] = 0 THEN << Word16 - h[1], 0 >>
  ELSE << Word16 - 1 - h[1], Word16 - h[2] >>

\* `v_${Math.abs(hash).toString(36)}_${Date.now().toString(36)}`
\* (toString(36) is injective on the naturals, the two numbers are kept)
computeVersionId(etag, size, mtime, dateNow) ==
  [hash |-> Abs32(HashFrom(<<0, 0>>, VersionData(etag, size, mtime), 1)),
   stamp |-> dateNow]

\* ------------------------------------------------------------------- state
VARIABLES
  now,                   \* Date.now()
  uuid,                  \* number of randomUUID() values drawn so far
  media_assets,          \* table rows
  asset_versions,
  transcript_segments,
  transcript_embeddings,
  queue,                 \* main queue: jobs, each waiting or active
  dlq,                   \* dead-letter queue
  ingest,                \* per ingest handler: position and locals
  worker,                \* per orchestrator worker: position and locals
  faults,                \* failures injected so far
  removals,              \* ObjectRemoved events handled so far
  published,             \* the publishes that completed, in commit order
  lastSearch,            \* response of the search made in the last step
  store,                 \* the bucket: object key -> metadata of the stored object
  knownObjects,          \* LocalS3Adapter.knownObjects of the bucket
  poll,                  \* the notification poller: position and locals
  ingestError,           \* per ingest handler: the error its last call threw
  duplicates,            \* enqueues of an idempotency key already used, so far
  dlq_items,             \* table rows of dlq_items
  triage,                \* the last call of the triage service and its outcome
  usedKeys,              \* the idempotency keys of the jobs enqueued so far
  paused,                \* OrchestratorService.paused
  pauses,                \* calls of pause() so far
  nacked                 \* job ids returned to the queue while paused

vars == << now, uuid, media_assets, asset_versions, transcript_segments,
           transcript_embeddings, queue, dlq, ingest, worker, faults, removals,
           published, lastSearch, store, knownObjects, poll, ingestError, duplicates,
           dlq_items, triage, usedKeys, paused, pauses, nacked >>

\* the pause switch of the orchestrator
pauseVars == << paused, pauses, nacked >>

\* what only the object store, the poller, the producers of jobs, the triage
\* service and the pause switch change
quietVars == << store, knownObjects, duplicates, dlq_items, triage, pauseVars >>

envVars == << quietVars, usedKeys >>

\* the ingest side, which the orchestrator and the search never touch
ingestEnv == << envVars, poll, ingestError >>

dbVars == << media_assets, asset_versions, transcript_segments, transcript_embeddings >>

\* NULL in a text column
NONE == "NULL"

\* a step that is not a search leaves no search response behind
NoSearch == lastSearch' = {}

\* the poller between two rounds of checkForChanges
IdlePoll == [pc |-> "idle", currentObjects |-> {}, events |-> << >>]

\* inserted: the handler took the branch that inserts a new asset
IdleIngest ==
  [pc |-> "idle", key |-> NONE, metadata |-> NULL, versionId |-> NULL, asset |-> NULL,
   inserted |-> FALSE]

\* timedOut: the job has been in process for longer than JOB_TIMEOUT_MS
IdleWorker ==
  [pc |-> "idle", job |-> NULL, segments |-> << >>, idx |-> 0,
   previousVersionId |-> NULL, error |-> NONE, timedOut |-> FALSE]

\* no call of the triage service yet
NoTriage == [op |-> "none", asset_id |-> NULL, error |-> NONE, calls |-> 0]

Init ==
  /\ now = 0
  /\ uuid = 0
  /\ media_assets = {}
  /\ asset_versions = {}
  /\ transcript_segments = {}
  /\ transcript_embeddings = {}
  /\ queue = {}
  /\ dlq = {}
  /\ ingest = [h \in Handlers |-> IdleIngest]
  /\ worker = [w \in Workers |-> IdleWorker]
  /\ faults = 0
  /\ removals = 0
  /\ published = << >>
  /\ lastSearch = {}
  /\ store = [k \in Keys |-> NULL]
  /\ knownObjects = {}
  /\ poll = IdlePoll
  /\ ingestError = [h \in Handlers |-> NONE]
  /\ duplicates = 0
  /\ dlq_items = {}
  /\ triage = NoTriage
  /\ usedKeys = {}
  /\ paused = FALSE
  /\ pauses = 0
  /\ nacked = {}

\* ------------------------------------------------- database adapter (rows)
getAsset(assetId) ==
  IF \E a \in media_assets : a.asset_id = assetId
  THEN CHOOSE a \in media_assets : a.asset_id = assetId
  ELSE NULL

getAssetByKey(objectKey) ==
  IF \E a \in media_assets : a.object_key = objectKey
  THEN CHOOSE a \in media_assets : a.object_key = objectKey
  ELSE NULL

getVersion(versionId) ==
  IF \E v \in asset_versions : v.version_id = versionId
  THEN CHOOSE v \in asset_versions : v.version_id = versionId
  ELSE NULL

\* --------------------------------------------- IngestService.handleObjectCreated
NewAsset(assetId, lineageId, objectKey) ==
  [asset_id |-> assetId, lineage_id |-> lineageId, object_key |-> objectKey,
   current_version_id |-> NULL, status |-> "INGESTED", triage_state |-> NONE,
   recommended_action |-> NONE, last_error |-> NONE, attempt |-> 0,
   tombstone |-> FALSE]

\* a version row that is created already published
NewVersion_BornActive(versionId, assetId, etag, size) ==
  [version_id |-> versionId, asset_id |-> assetId, status |-> "INGESTED",
   publish_state |-> "ACTIVE", etag |-> etag, file_size |-> size]

NewVersion(versionId, assetId, etag, size) ==
  [version_id |-> versionId, asset_id |-> assetId, status |-> "INGESTED",
   publish_state |-> "STAGING", etag |-> etag, file_size |-> size]

\* a job whose attempt count starts again at 0
NewJob_AttemptZero(jobId, assetId, versionId, attempt) ==
  [job_id |-> jobId, asset_id |-> assetId, version_id |-> versionId,
   attempt |-> 0,
   idempotency_key |-> << assetId, versionId, 0 >>]

NewJob(jobId, assetId, versionId, attempt) ==
  [job_id |-> jobId, asset_id |-> assetId, version_id |-> versionId,
   attempt |-> attempt,
   idempotency_key |-> << assetId, versionId, attempt >>]

\* queue.add(job.job_id, job, {jobId: job.job_id}): an id already in the queue
\* is not added again
enqueueJob(job) ==
  IF \E q \in queue : q.job.job_id = job.job_id THEN queue
  ELSE queue \cup { [job |-> job, state |-> "waiting", delay |-> 0] }

\* queue.add(job.job_id, job, {jobId: job.job_id, delay: delayMs})
enqueueJobWithDelay(job, delayMs) ==
  IF \E q \in queue : q.job.job_id = job.job_id THEN queue
  ELSE queue \cup { [job |-> job, state |-> "waiting", delay |-> delayMs] }

\* a producer enqueues a job under an idempotency key that is already in the
\* queue: the job object it enqueued before, or the job built again, with a
\* new randomUUID() as job_id
EnqueueJob_SameKey(j, rebuilt) ==
  /\ duplicates < MaxDuplicates
  /\ j \in { q.job : q \in queue }
  /\ queue' = enqueueJob(IF rebuilt THEN [j EXCEPT !.job_id = uuid + 1] ELSE j)
  /\ uuid' = IF rebuilt THEN uuid + 1 ELSE uuid
  /\ duplicates' = duplicates + 1
  /\ UNCHANGED << now, dbVars, dlq, ingest, worker, faults, removals, published,
                  store, knownObjects, poll, ingestError, dlq_items, triage, usedKeys,
                  pauseVars >>
  /\ NoSearch

\* event delivery, format check, getObjectMetadata (the store returns o),
\* computeVersionId at the current time t.  Time that passes is observed only
\* through the stamps of version ids, so the clock is advanced here, and only
\* past a millisecond that a stored version id carries.
\* The event's etag and size are those of the stored object.  The objects are
\* interchangeable, so they are first seen in the order of their
\* modification times.
ObjectCreated_Start(h, k, o, t) ==
  /\ ingest[h].pc = "idle"
  /\ Cardinality(asset_versions) < MaxVersions
  /\ \A p \in Objects : p.lastModified < o.lastModified =>
        \E v \in asset_versions : v.etag = p.etag
  /\ t = now \/ (t = now + 1 /\ \E v \in asset_versions : v.version_id.stamp = now)
  /\ now' = t
  /\ IF ~isSupportedMediaFormat(k)
     THEN ingest' = ingest      \* Skipping non-media file
     ELSE ingest' = [ingest EXCEPT ![h] =
            [pc |-> "getAssetByKey", key |-> k, metadata |-> o,
             versionId |-> computeVersionId(o.etag, o.size, o.lastModified, t),
             asset |-> NULL, inserted |-> FALSE]]
  /\ UNCHANGED << uuid, dbVars, queue, dlq, worker, faults, published, removals >>
  /\ NoSearch
  /\ ingestError' = [ingestError EXCEPT ![h] = NONE]
  /\ UNCHANGED envVars

\* the asset row a handler holds in its local `asset`: of that row the handler
\* reads asset_id only, so the local keeps that field
Held(asset) == IF asset = NULL THEN NULL ELSE [asset_id |-> asset.asset_id]

ObjectCreated_GetAssetByKey(h) ==
  /\ ingest[h].pc = "getAssetByKey"
  /\ ingest' = [ingest EXCEPT ![h].asset = Held(getAssetByKey(ingest[h].key)),
                              ![h].pc = "checkVersion"]
  /\ UNCHANGED << now, uuid, dbVars, queue, dlq, worker, faults, published, removals >>
  /\ NoSearch
  /\ UNCHANGED ingestEnv

\* INSERT ... ON CONFLICT (bucket, object_key) DO UPDATE ... RETURNING *
\* a conflicting row keeps its asset_id and lineage_id and takes the rest
upsertAsset(asset) ==
  LET old == getAssetByKey(asset.object_key)
      row == IF old = NULL THEN asset
             ELSE [asset EXCEPT !.asset_id = old.asset_id,
                                !.lineage_id = old.lineage_id]
  IN  [table |-> { a \in media_assets : a.object_key # asset.object_key } \cup {row},
       returned |-> row]

\* inside tx.execute: the existing-version check, or the insert of a new asset
ObjectCreated_CheckVersion(h) ==
  /\ ingest[h].pc = "checkVersion"
  /\ IF ingest[h].asset # NULL
     THEN /\ ingest' = [ingest EXCEPT ![h] =
                 IF getVersion(ingest[h].versionId) # NULL
                 THEN IdleIngest      \* already exists - skipping
                 ELSE [ingest[h] EXCEPT !.pc = "createVersion"]]
          /\ UNCHANGED << media_assets, uuid >>
     ELSE LET up == upsertAsset(NewAsset(uuid + 1, uuid + 2, ingest[h].key))
          IN  /\ media_assets' = up.table
              /\ uuid' = uuid + 2
              /\ ingest' = [ingest EXCEPT ![h].asset = Held(up.returned),
                                          ![h].inserted = TRUE,
                                          ![h].pc = "createVersion"]
  /\ UNCHANGED << now, asset_versions, transcript_segments,
                  transcript_embeddings, queue, dlq, worker, faults, published, removals >>
  /\ NoSearch
  /\ UNCHANGED ingestEnv

DUPLICATE_KEY == "duplicate key value violates unique constraint"

\* INSERT INTO asset_versions: version_id is the primary key, a duplicate
\* throws and the handler ends with the error
ObjectCreated_CreateVersion(h) ==
  /\ ingest[h].pc = "createVersion"
  /\ IF getVersion(ingest[h].versionId) # NULL
     THEN /\ ingest' = [ingest EXCEPT ![h] = IdleIngest]
          /\ ingestError' = [ingestError EXCEPT ![h] = DUPLICATE_KEY]
          /\ UNCHANGED asset_versions
     ELSE /\ asset_versions' = asset_versions \cup
               { NewVersion(ingest[h].versionId, ingest[h].asset.asset_id,
                            ingest[h].metadata.etag, ingest[h].metadata.size) }
          /\ ingest' = [ingest EXCEPT ![h].pc = "enqueueJob"]
          /\ UNCHANGED ingestError
  /\ UNCHANGED << now, uuid, media_assets, transcript_segments,
                  transcript_embeddings, queue, dlq, worker, faults, published, removals >>
  /\ NoSearch
  /\ UNCHANGED << envVars, poll >>

ObjectCreated_EnqueueJob(h) ==
  /\ ingest[h].pc = "enqueueJob"
  /\ queue' = enqueueJob(NewJob(uuid + 1, ingest[h].asset.asset_id,
                                ingest[h].versionId, 0))
  /\ uuid' = uuid + 1
  /\ usedKeys' = usedKeys \cup
        { NewJob(uuid + 1, ingest[h].asset.asset_id,
                 ingest[h].versionId, 0).idempotency_key }
  /\ ingest' = [ingest EXCEPT ![h] = IdleIngest]
  /\ UNCHANGED << now, dbVars, dlq, worker, faults,
                  published, removals >>
  /\ NoSearch
  /\ UNCHANGED << quietVars, poll, ingestError >>

\* errors of the database and of the queue adapter
INGEST_ERRORS == {"connection timeout"}

\* a call of the handler throws: getAssetByKey, or a call inside tx.execute,
\* whose catch issues ROLLBACK on the transaction's own client, which ran none
\* of the statements, and rethrows to the caller
ObjectCreated_Fail(h) ==
  /\ ingest[h].pc \in {"getAssetByKey", "checkVersion", "createVersion", "enqueueJob"}
  /\ faults < MaxIngestFaults
  /\ faults' = faults + 1
  /\ \E e \in INGEST_ERRORS : ingestError' = [ingestError EXCEPT ![h] = e]
  /\ ingest' = [ingest EXCEPT ![h] = IdleIngest]
  /\ UNCHANGED << now, uuid, dbVars, queue, dlq, worker, published, removals,
                  envVars, poll >>
  /\ NoSearch

\* --------------------------------------------- IngestService.handleObjectRemoved
tombstoneAsset(assetId) ==
  LET f(a) == [a EXCEPT !.tombstone = TRUE, !.status = "DELETED",
                        !.current_version_id = NULL]
  IN  { IF a.asset_id = assetId THEN f(a) ELSE a : a \in media_assets }

softDeleteSegments(assetId) ==
  { IF s.asset_id = assetId THEN [s EXCEPT !.visibility = "SOFT_DELETED"] ELSE s
    : s \in transcript_segments }

softDeleteEmbeddings(assetId) ==
  { IF e.asset_id = assetId THEN [e EXCEPT !.visibility = "SOFT_DELETED"] ELSE e
    : e \in transcript_embeddings }

\* event delivery and getAssetByKey
ObjectRemoved_Start(h, k) ==
  /\ ingest[h].pc = "idle"
  /\ IF getAssetByKey(k) = NULL
     THEN UNCHANGED << ingest, removals >>      \* No asset found - ignoring
     ELSE /\ removals < MaxRemovals
          /\ removals' = removals + 1
          /\ ingest' = [ingest EXCEPT ![h] =
                [IdleIngest EXCEPT !.pc = "tombstoneAsset", !.key = k,
                                   !.asset = Held(getAssetByKey(k))]]
  /\ UNCHANGED << now, uuid, dbVars, queue, dlq, worker, faults,
                  published >>
  /\ NoSearch
  /\ ingestError' = [ingestError EXCEPT ![h] = NONE]
  /\ UNCHANGED envVars

ObjectRemoved_Tombstone(h) ==
  /\ ingest[h].pc = "tombstoneAsset"
  /\ media_assets' = tombstoneAsset(ingest[h].asset.asset_id)
  /\ ingest' = [ingest EXCEPT ![h].pc = "softDeleteSegments"]
  /\ UNCHANGED << now, uuid, asset_versions, transcript_segments,
                  transcript_embeddings, queue, dlq, worker, faults, published, removals >>
  /\ NoSearch
  /\ UNCHANGED ingestEnv

ObjectRemoved_SoftDeleteSegments(h) ==
  /\ ingest[h].pc = "softDeleteSegments"
  /\ transcript_segments' = softDeleteSegments(ingest[h].asset.asset_id)
  /\ ingest' = [ingest EXCEPT ![h].pc = "softDeleteEmbeddings"]
  /\ UNCHANGED << now, uuid, media_assets, asset_versions,
                  transcript_embeddings, queue, dlq, worker, faults, published, removals >>
  /\ NoSearch
  /\ UNCHANGED ingestEnv

ObjectRemoved_SoftDeleteEmbeddings(h) ==
  /\ ingest[h].pc = "softDeleteEmbeddings"
  /\ transcript_embeddings' = softDeleteEmbeddings(ingest[h].asset.asset_id)
  /\ ingest' = [ingest EXCEPT ![h] = IdleIngest]
  /\ UNCHANGED << now, uuid, media_assets, asset_versions,
                  transcript_segments, queue, dlq, worker, faults, published, removals >>
  /\ NoSearch
  /\ UNCHANGED ingestEnv

\* ---------------------------------------------- LocalS3Adapter notifications
\* users of the bucket write and delete objects (between two polling rounds)
PutObject(k, o) ==
  /\ poll.pc = "idle"
  /\ store[k] # o
  /\ store' = [store EXCEPT ![k] = o]
  /\ UNCHANGED << now, uuid, dbVars, queue, dlq, ingest, worker, faults, removals,
                  published, knownObjects, poll, ingestError, duplicates, dlq_items,
                  triage, usedKeys, pauseVars >>
  /\ NoSearch

DeleteObject(k) ==
  /\ poll.pc = "idle"
  /\ store[k] # NULL
  /\ store' = [store EXCEPT ![k] = NULL]
  /\ UNCHANGED << now, uuid, dbVars, queue, dlq, ingest, worker, faults, removals,
                  published, knownObjects, poll, ingestError, duplicates, dlq_items,
                  triage, usedKeys, pauseVars >>
  /\ NoSearch

\* listObjects(bucket)
listObjects == { [key |-> k, metadata |-> store[k]] : k \in { x \in Keys : store[x] # NULL } }

\* the order in which a listing and the known keys are iterated
KeyOrder == << "hello.wav", "notes.txt" >>

\* the events of one round: ObjectCreated for the listed keys that are not
\* known, then ObjectRemoved for the known keys that are not listed
EventsOf(currentKeys, knownKeys) ==
  LET created(k) == k \in currentKeys /\ k \notin knownKeys
      removed(k) == k \in knownKeys /\ k \notin currentKeys
      event(type, k) == [event_type |-> type, object_key |-> k]
      Only(type, keep(_), i) == IF keep(KeyOrder[i]) THEN << event(type, KeyOrder[i]) >>
                                ELSE << >>
  IN  Only("ObjectCreated", created, 1) \o Only("ObjectCreated", created, 2)
      \o Only("ObjectRemoved", removed, 1) \o Only("ObjectRemoved", removed, 2)

\* checkForChanges: the listing and the events it yields
Poll_List ==
  /\ poll.pc = "idle"
  /\ poll' = [pc |-> "deliver", currentObjects |-> listObjects,
              events |-> EventsOf({ x.key : x \in listObjects }, knownObjects)]
  /\ UNCHANGED << now, uuid, dbVars, queue, dlq, ingest, worker, faults, removals,
                  published, store, knownObjects, ingestError, duplicates, dlq_items,
                  triage, usedKeys, pauseVars >>
  /\ NoSearch

\* await handler(event) for an ObjectCreated event: the subscription's callback
\* calls handleObjectCreated and catches what it throws
Poll_DeliverCreated(h, t) ==
  /\ poll.pc = "deliver"
  /\ poll.events # << >>
  /\ Head(poll.events).event_type = "ObjectCreated"
  /\ ObjectCreated_Start(h, Head(poll.events).object_key,
                         store[Head(poll.events).object_key], t)
  /\ poll' = [poll EXCEPT !.events = Tail(poll.events)]

\* await handler(event) for an ObjectRemoved event
Poll_DeliverRemoved(h) ==
  /\ poll.pc = "deliver"
  /\ poll.events # << >>
  /\ Head(poll.events).event_type = "ObjectRemoved"
  /\ ObjectRemoved_Start(h, Head(poll.events).object_key)
  /\ poll' = [poll EXCEPT !.events = Tail(poll.events)]

\* every handler call has returned: this.knownObjects.set(bucket, currentKeys)
Poll_Finish ==
  /\ poll.pc = "deliver"
  /\ poll.events = << >>
  /\ \A h \in Handlers : ingest[h].pc = "idle"
  /\ knownObjects' = { x.key : x \in poll.currentObjects }
  /\ poll' = [poll EXCEPT !.pc = "idle"]
  /\ UNCHANGED << now, uuid, dbVars, queue, dlq, ingest, worker, faults, removals,
                  published, store, ingestError, duplicates, dlq_items,
                  triage, usedKeys, pauseVars >>
  /\ NoSearch

\* ------------------------------------------------------------------ errors
\* the error messages the injected failures raise, by the phase they hit
ASR_ERRORS ==
  {"ASR failed: request timeout", "ASR failed: unsupported codec",
   "ASR failed: unsupported media format", "ASR failed: engine busy"}
EMBED_ERROR == "embedding service unavailable"
DB_ERROR == "Connection terminated unexpectedly"
NO_SUCH_KEY == "The specified key does not exist."

\* message.toLowerCase().includes(word), for the words the classifier tests
Includes(message, word) ==
  \/ message = "ASR failed: request timeout" /\ word = "timeout"
  \/ message = "ASR failed: unsupported codec" /\ word \in {"unsupported", "codec"}
  \/ message = "ASR failed: unsupported media format" /\ word = "unsupported"
  \/ message = "ASR failed: engine busy" /\ word \in {"engine", "busy"}
  \/ message = EMBED_ERROR /\ word = "unavailable"
  \/ message = DB_ERROR /\ word = "connection"

isRetryableError(message) ==
  IF \E w \in {"codec", "corrupt", "invalid format", "unsupported"} : Includes(message, w)
  THEN FALSE
  ELSE TRUE

determineTriageState(message) ==
  IF \E w \in {"codec", "corrupt", "invalid format"} : Includes(message, w)
  THEN "NEEDS_MEDIA_FIX"
  ELSE IF \E w \in {"engine", "model", "transcription"} : Includes(message, w)
  THEN "NEEDS_ENGINE_TUNING"
  ELSE "QUARANTINED"

getRecommendedAction(state) ==
  CASE state = "NEEDS_MEDIA_FIX" ->
         "Re-encode media file with supported codec or fix corruption"
    [] state = "NEEDS_ENGINE_TUNING" ->
         "Review ASR engine configuration or try alternative engine"
    [] OTHER -> "Manual investigation required"

\* ------------------------------------------ database adapter (statements)
\* UPDATE media_assets SET status = $2 [, triage_state, last_error, attempt,
\* recommended_action] WHERE asset_id = $1; options holds the fields given
updateAssetStatus(assetId, status, options) ==
  LET opt(a, field, column) ==
        IF field \in DOMAIN options THEN options[field] ELSE a[column]
      f(a) == [a EXCEPT !.status = status,
                        !.triage_state = opt(a, "triageState", "triage_state"),
                        !.last_error = opt(a, "lastError", "last_error"),
                        !.attempt = opt(a, "attempt", "attempt"),
                        !.recommended_action =
                           opt(a, "recommendedAction", "recommended_action")]
  IN  { IF a.asset_id = assetId THEN f(a) ELSE a : a \in media_assets }

NoOptions == [none |-> TRUE]

\* VASTDatabaseAdapter.updateAssetStatus: triage_state, last_error and
\* recommended_action are written only when the option is truthy, attempt
\* when it is not undefined
VASTUpdateAssetStatus(assetId, status, options) ==
  LET truthy(field) == field \in DOMAIN options /\ options[field] # NONE
      f(a) == [a EXCEPT !.status = status,
                        !.triage_state = IF truthy("triageState")
                                         THEN options["triageState"] ELSE @,
                        !.last_error = IF truthy("lastError")
                                       THEN options["lastError"] ELSE @,
                        !.attempt = IF "attempt" \in DOMAIN options
                                    THEN options["attempt"] ELSE @,
                        !.recommended_action = IF truthy("recommendedAction")
                                               THEN options["recommendedAction"] ELSE @]
  IN  { IF a.asset_id = assetId THEN f(a) ELSE a : a \in media_assets }

setCurrentVersion(assetId, versionId) ==
  LET f(a) == [a EXCEPT !.current_version_id = versionId]
  IN  { IF a.asset_id = assetId THEN f(a) ELSE a : a \in media_assets }

updateVersionStatus(versionId, status) ==
  { IF v.version_id = versionId THEN [v EXCEPT !.status = status] ELSE v
    : v \in asset_versions }

isVersionProcessed(versionId) ==
  \E v \in asset_versions :
     v.version_id = versionId /\ v.status \in {"INDEXED", "TRANSCRIBED", "PUBLISHED"}

\* VASTDatabaseAdapter.isVersionProcessed:
\* version.status === 'ACTIVE' || version.status === 'ARCHIVED'
VASTIsVersionProcessed(versionId) ==
  \E v \in asset_versions :
     v.version_id = versionId /\ v.status \in {"ACTIVE", "ARCHIVED"}

SameRow(r, q) ==
  r.asset_id = q.asset_id /\ r.version_id = q.version_id /\ r.segment_id = q.segment_id

\* INSERT ... ON CONFLICT (asset_id, version_id, segment_id) DO UPDATE SET
\* text, speaker, confidence, visibility
upsertSegments(segments) ==
  { s \in transcript_segments : ~ \E n \in segments : SameRow(s, n) } \cup segments

\* one INSERT ... ON CONFLICT (asset_id, version_id, segment_id) DO UPDATE SET
\* embedding, model, visibility
upsertEmbedding(e) ==
  { x \in transcript_embeddings : ~ SameRow(x, e) } \cup {e}

\* an update of the visibility that leaves ARCHIVED rows as they are
updateSegmentVisibility_KeepArchived(assetId, versionId, visibility) ==
  { IF s.asset_id = assetId /\ s.version_id = versionId /\ s.visibility # "ARCHIVED"
    THEN [s EXCEPT !.visibility = visibility] ELSE s : s \in transcript_segments }

updateSegmentVisibility(assetId, versionId, visibility) ==
  { IF s.asset_id = assetId /\ s.version_id = versionId
    THEN [s EXCEPT !.visibility = visibility] ELSE s : s \in transcript_segments }

updateEmbeddingVisibility(assetId, versionId, visibility) ==
  { IF e.asset_id = assetId /\ e.version_id = versionId
    THEN [e EXCEPT !.visibility = visibility] ELSE e : e \in transcript_embeddings }

\* ----------------------------------------------------------- queue adapter
\* an acknowledgement that leaves the job where it is
ackJob_Keep(q, jobId) == q

\* job.remove()
ackJob(q, jobId) == { j \in q : j.job.job_id # jobId }

\* ------------------------------------------- OrchestratorService.processJob
\* the ASR results: up to MaxSegs segments, each with a text
ASRResults == UNION { [1..n -> Texts] : n \in 0..MaxSegs }

SegmentId(versionId, idx) == [version_id |-> versionId, seg |-> idx]

\* transcriptSegments: segment idx of the ASR result (idx counts from 0)
TranscriptSegments(job, segs) ==
  { [segment_id |-> SegmentId(job.version_id, i - 1), asset_id |-> job.asset_id,
     version_id |-> job.version_id, text |-> segs[i], visibility |-> "STAGING"]
    : i \in 1..Len(segs) }

EMBEDDING_DIMENSION == 384

TranscriptEmbedding(job, idx) ==
  [embedding_id |-> [segment_id |-> SegmentId(job.version_id, idx), emb |-> TRUE],
   asset_id |-> job.asset_id, version_id |-> job.version_id,
   segment_id |-> SegmentId(job.version_id, idx),
   dimension |-> EMBEDDING_DIMENSION, visibility |-> "STAGING"]

\* the worker takes a waiting job and runs the idempotency gate: a processed
\* version is acknowledged and skipped
Consume(w) ==
  /\ ~ paused
  /\ worker[w].pc = "idle"
  /\ \A v \in Workers : v < w => worker[v].pc # "idle"
  /\ \E j \in queue :
       /\ j.state = "waiting"
       /\ IF isVersionProcessed(j.job.version_id)
          THEN /\ queue' = ackJob(queue, j.job.job_id)
               /\ UNCHANGED worker
          ELSE /\ queue' = (queue \ {j}) \cup { [j EXCEPT !.state = "active", !.delay = 0] }
               /\ worker' = [worker EXCEPT ![w] =
                     [IdleWorker EXCEPT !.pc = "setTranscribing", !.job = j.job]]
  /\ UNCHANGED << now, uuid, dbVars, dlq, ingest, faults, published, removals >>
  /\ NoSearch
  /\ UNCHANGED ingestEnv

\* the same step of an orchestrator whose database adapter is the VAST one
VASTConsume(w) ==
  /\ ~ paused
  /\ worker[w].pc = "idle"
  /\ \A v \in Workers : v < w => worker[v].pc # "idle"
  /\ \E j \in queue :
       /\ j.state = "waiting"
       /\ IF VASTIsVersionProcessed(j.job.version_id)
          THEN /\ queue' = ackJob(queue, j.job.job_id)
               /\ UNCHANGED worker
          ELSE /\ queue' = (queue \ {j}) \cup { [j EXCEPT !.state = "active", !.delay = 0] }
               /\ worker' = [worker EXCEPT ![w] =
                     [IdleWorker EXCEPT !.pc = "setTranscribing", !.job = j.job]]
  /\ UNCHANGED << now, uuid, dbVars, dlq, ingest, faults, published, removals >>
  /\ NoSearch
  /\ UNCHANGED ingestEnv

ProcessJob_SetTranscribing(w) ==
  /\ worker[w].pc = "setTranscribing"
  /\ media_assets' = updateAssetStatus(worker[w].job.asset_id, "TRANSCRIBING", NoOptions)
  /\ worker' = [worker EXCEPT ![w].pc = "transcribe"]
  /\ UNCHANGED << now, uuid, asset_versions, transcript_segments,
                  transcript_embeddings, queue, dlq, ingest, faults, published, removals >>
  /\ NoSearch
  /\ UNCHANGED ingestEnv

\* getAsset (asset rows are never deleted, so the asset is found),
\* storage.getObject, asr.transcribe returning segs, and upsertSegments
\* (a missing object and an ASR failure are the step Fail)
ProcessJob_Transcribe(w, segs) ==
  /\ worker[w].pc = "transcribe"
  /\ transcript_segments' = upsertSegments(TranscriptSegments(worker[w].job, segs))
  /\ worker' = [worker EXCEPT ![w].pc = "upsertEmbeddings", ![w].segments = segs,
                              ![w].idx = 0]
  /\ UNCHANGED << now, uuid, media_assets, asset_versions,
                  transcript_embeddings, queue, dlq, ingest,
                  faults, published, removals >>
  /\ NoSearch
  /\ UNCHANGED ingestEnv

\* embedBatch, then upsertEmbeddings: one INSERT per embedding
ProcessJob_UpsertEmbeddings(w) ==
  /\ worker[w].pc = "upsertEmbeddings"
  /\ IF worker[w].idx < Len(worker[w].segments)
     THEN /\ transcript_embeddings' =
                upsertEmbedding(TranscriptEmbedding(worker[w].job, worker[w].idx))
          /\ worker' = [worker EXCEPT ![w].idx = worker[w].idx + 1]
          /\ UNCHANGED asset_versions
     ELSE \* 8. Update version status
          /\ asset_versions' = updateVersionStatus(worker[w].job.version_id, "TRANSCRIBED")
          /\ worker' = [worker EXCEPT ![w].pc = "publish_getAsset"]
          /\ UNCHANGED transcript_embeddings
  /\ UNCHANGED << now, uuid, media_assets, transcript_segments, queue,
                  dlq, ingest, faults, published, removals >>
  /\ NoSearch
  /\ UNCHANGED ingestEnv

\* ------------------------------------- OrchestratorService.pause / resume
pause ==
  /\ pauses < MaxPauses
  /\ paused' = TRUE
  /\ pauses' = pauses + 1
  /\ UNCHANGED << now, uuid, dbVars, queue, dlq, ingest, worker, faults, removals,
                  published, store, knownObjects, poll, ingestError, duplicates,
                  dlq_items, triage, usedKeys, nacked >>
  /\ NoSearch

resume ==
  /\ paused
  /\ paused' = FALSE
  /\ UNCHANGED << now, uuid, dbVars, queue, dlq, ingest, worker, faults, removals,
                  published, store, knownObjects, poll, ingestError, duplicates,
                  dlq_items, triage, usedKeys, pauses, nacked >>
  /\ NoSearch

\* LocalQueueAdapter.nackJob: job.moveToFailed(error, 'NACK'), then
\* job.retry(). The second argument of moveToFailed is the token of the lock
\* on the job, and the lock of a job in delivery belongs to the queue's
\* worker, whose token is not 'NACK'. Where the queue accepts the token the
\* job is failed and retried: it waits again. Where the queue checks the
\* token the call throws before retry(), processJob rejects, and the worker
\* fails the job (no attempts option was given at enqueue): the job is in
\* the failed set, from which nothing takes it.
nackJob(q, jobId) ==
  { { IF j.job.job_id = jobId THEN [j EXCEPT !.state = "waiting", !.delay = 0] ELSE j
      : j \in q },
    { IF j.job.job_id = jobId THEN [j EXCEPT !.state = "failed", !.delay = 0] ELSE j
      : j \in q } }

\* processJob of a job delivered while the orchestrator is paused:
\* `if (this.paused) { await queue.nackJob(job.job_id); return; }`
ProcessJob_Paused(w) ==
  /\ paused
  /\ worker[w].pc = "idle"
  /\ \E j \in queue :
       /\ j.state = "waiting"
       /\ queue' \in nackJob(queue, j.job.job_id)
       /\ nacked' = nacked \cup {j.job.job_id}
  /\ UNCHANGED << now, uuid, dbVars, dlq, ingest, worker, faults, removals,
                  published, store, knownObjects, poll, ingestError, duplicates,
                  dlq_items, triage, usedKeys, paused, pauses >>
  /\ NoSearch

\* --------------------------------------- OrchestratorService.publishVersion
\* tx.execute runs the statements below through the adapter, each on the pool

\* 1. Get current version (if any)
Publish_GetAsset(w) ==
  /\ worker[w].pc = "publish_getAsset"
  /\ LET asset == getAsset(worker[w].job.asset_id)
         previousVersionId == IF asset = NULL THEN NULL ELSE asset.current_version_id
     IN  worker' = [worker EXCEPT
            ![w].previousVersionId = previousVersionId,
            ![w].pc = IF previousVersionId # NULL THEN "publish_archiveSegments"
                      ELSE "publish_promoteSegments"]
  /\ UNCHANGED << now, uuid, dbVars, queue, dlq, ingest, faults, published, removals >>
  /\ NoSearch
  /\ UNCHANGED ingestEnv

\* 2. Archive previous version's data
Publish_ArchiveSegments(w) ==
  /\ worker[w].pc = "publish_archiveSegments"
  /\ transcript_segments' = updateSegmentVisibility(worker[w].job.asset_id,
                               worker[w].previousVersionId, "ARCHIVED")
  /\ worker' = [worker EXCEPT ![w].pc = "publish_archiveEmbeddings"]
  /\ UNCHANGED << now, uuid, media_assets, asset_versions,
                  transcript_embeddings, queue, dlq, ingest, faults, published, removals >>
  /\ NoSearch
  /\ UNCHANGED ingestEnv

Publish_ArchiveEmbeddings(w) ==
  /\ worker[w].pc = "publish_archiveEmbeddings"
  /\ transcript_embeddings' = updateEmbeddingVisibility(worker[w].job.asset_id,
                                 worker[w].previousVersionId, "ARCHIVED")
  /\ worker' = [worker EXCEPT ![w].pc = "publish_promoteSegments"]
  /\ UNCHANGED << now, uuid, media_assets, asset_versions,
                  transcript_segments, queue, dlq, ingest, faults, published, removals >>
  /\ NoSearch
  /\ UNCHANGED ingestEnv

\* 3. Promote new version to ACTIVE
Publish_PromoteSegments(w) ==
  /\ worker[w].pc = "publish_promoteSegments"
  /\ transcript_segments' = updateSegmentVisibility(worker[w].job.asset_id,
                               worker[w].job.version_id, "ACTIVE")
  /\ worker' = [worker EXCEPT ![w].pc = "publish_promoteEmbeddings"]
  /\ UNCHANGED << now, uuid, media_assets, asset_versions,
                  transcript_embeddings, queue, dlq, ingest, faults, published, removals >>
  /\ NoSearch
  /\ UNCHANGED ingestEnv

Publish_PromoteEmbeddings(w) ==
  /\ worker[w].pc = "publish_promoteEmbeddings"
  /\ transcript_embeddings' = updateEmbeddingVisibility(worker[w].job.asset_id,
                                 worker[w].job.version_id, "ACTIVE")
  /\ worker' = [worker EXCEPT ![w].pc = "publish_setCurrentVersion"]
  /\ UNCHANGED << now, uuid, media_assets, asset_versions,
                  transcript_segments, queue, dlq, ingest, faults, published, removals >>
  /\ NoSearch
  /\ UNCHANGED ingestEnv

\* 4. Atomic pointer flip
Publish_SetCurrentVersion(w) ==
  /\ worker[w].pc = "publish_setCurrentVersion"
  /\ media_assets' = setCurrentVersion(worker[w].job.asset_id, worker[w].job.version_id)
  /\ worker' = [worker EXCEPT ![w].pc = "publish_setIndexed"]
  /\ UNCHANGED << now, uuid, asset_versions, transcript_segments,
                  transcript_embeddings, queue, dlq, ingest, faults, published, removals >>
  /\ NoSearch
  /\ UNCHANGED ingestEnv

\* 5. Update asset status, COMMIT; the publish has completed
Publish_SetIndexed(w) ==
  /\ worker[w].pc = "publish_setIndexed"
  /\ media_assets' = updateAssetStatus(worker[w].job.asset_id, "INDEXED", NoOptions)
  /\ published' = Append(published,
        [asset_id |-> worker[w].job.asset_id, version_id |-> worker[w].job.version_id])
  /\ worker' = [worker EXCEPT ![w].pc = "ackJob"]
  /\ UNCHANGED << now, uuid, asset_versions, transcript_segments,
                  transcript_embeddings, queue, dlq, ingest, faults, removals >>
  /\ NoSearch
  /\ UNCHANGED ingestEnv

\* 10. Mark job complete
ProcessJob_Ack(w) ==
  /\ worker[w].pc = "ackJob"
  /\ queue' = ackJob(queue, worker[w].job.job_id)
  /\ worker' = [worker EXCEPT ![w] = IdleWorker]
  /\ UNCHANGED << now, uuid, dbVars, dlq, ingest, faults,
                  published, removals >>
  /\ NoSearch
  /\ UNCHANGED ingestEnv

\* ------------------------------------------------------- injected failures
PublishPcs ==
  {"publish_getAsset", "publish_archiveSegments", "publish_archiveEmbeddings",
   "publish_promoteSegments", "publish_promoteEmbeddings",
   "publish_setCurrentVersion", "publish_setIndexed"}

\* the errors the call at a position can throw
ErrorsAt(w) ==
  IF worker[w].pc = "transcribe" THEN ASR_ERRORS \cup {NO_SUCH_KEY}
  ELSE IF worker[w].pc = "upsertEmbeddings" /\ worker[w].idx = 0 THEN {EMBED_ERROR}
  ELSE IF worker[w].pc \in PublishPcs THEN {DB_ERROR}
  ELSE {}

\* the call a worker is about to make throws; inside publishVersion the
\* catch of tx.execute issues ROLLBACK on the transaction's own client, which
\* ran none of the statements, and rethrows
Fail(w, limit) ==
  /\ faults < limit
  /\ \E e \in ErrorsAt(w) :
       worker' = [worker EXCEPT ![w].pc = "handleJobError", ![w].error = e]
  /\ faults' = faults + 1
  /\ UNCHANGED << now, uuid, dbVars, queue, dlq, ingest, published, removals >>
  /\ NoSearch
  /\ UNCHANGED ingestEnv

\* JOB_TIMEOUT_MS elapses while a worker is processing a job: the timeout is
\* handed to the queue's worker as lockDuration and nothing else reads it, so
\* processJob goes on
Timeout(w) ==
  /\ worker[w].pc # "idle"
  /\ ~ worker[w].timedOut
  /\ worker' = [worker EXCEPT ![w].timedOut = TRUE]
  /\ UNCHANGED << now, uuid, dbVars, queue, dlq, ingest, faults, published, removals >>
  /\ NoSearch
  /\ UNCHANGED ingestEnv

\* ---------------------------------------- OrchestratorService.handleJobError
\* the test of handleJobError without the classification of the error
ToDLQ_ExhaustedOnly(job, error) ==
  job.attempt + 1 >= MAX_RETRY_ATTEMPTS

\* the test of handleJobError with > in the place of >=
ToDLQ_OneMore(job, error) ==
  ~ isRetryableError(error) \/ job.attempt + 1 > MAX_RETRY_ATTEMPTS

ToDLQ(job, error) ==
  ~ isRetryableError(error) \/ job.attempt + 1 >= MAX_RETRY_ATTEMPTS

\* Math.random() takes the values random / JitterSteps, random \in Randoms
Randoms == 0 .. (JitterSteps - 1)

Min(a, b) == IF a < b THEN a ELSE b

\* Math.floor(cappedDelay + cappedDelay * 0.25 * (Math.random() * 2 - 1))
calculateBackoffDelay(attempt, random) ==
  LET exponentialDelay == BASE_DELAY_MS * 2 ^ attempt
      cappedDelay == Min(exponentialDelay, MAX_DELAY_MS)
  IN  (cappedDelay * (3 * JitterSteps + 2 * random)) \div (4 * JitterSteps)

HandleJobError_UpdateAsset(w) ==
  /\ worker[w].pc = "handleJobError"
  /\ LET job == worker[w].job
         error == worker[w].error
         newAttempt == job.attempt + 1
         triageState == determineTriageState(error)
     IN  media_assets' =
           IF ToDLQ(job, error)
           THEN updateAssetStatus(job.asset_id, "QUARANTINED",
                   [triageState |-> triageState, lastError |-> error,
                    attempt |-> newAttempt,
                    recommendedAction |-> getRecommendedAction(triageState)])
           ELSE updateAssetStatus(job.asset_id, "PENDING_RETRY",
                   [lastError |-> error, attempt |-> newAttempt])
  /\ worker' = [worker EXCEPT ![w].pc = "handleJobError_queue"]
  /\ UNCHANGED << now, uuid, asset_versions, transcript_segments,
                  transcript_embeddings, queue, dlq, ingest, faults, published, removals >>
  /\ NoSearch
  /\ UNCHANGED ingestEnv

\* moveToDLQ, or enqueueJobWithDelay of the retry job and ackJob
HandleJobError_Queue(w) ==
  /\ worker[w].pc = "handleJobError_queue"
  /\ LET job == worker[w].job
         error == worker[w].error
     IN  IF ToDLQ(job, error)
         THEN /\ dlq' = dlq \cup { [job |-> job, error_message |-> error] }
              /\ queue' = ackJob(queue, job.job_id)
              /\ UNCHANGED << uuid, usedKeys >>
         ELSE /\ \E random \in Randoms :
                   queue' = ackJob(enqueueJobWithDelay(
                               NewJob(uuid + 1, job.asset_id, job.version_id,
                                      job.attempt + 1),
                               calculateBackoffDelay(job.attempt + 1, random)),
                            job.job_id)
              /\ uuid' = uuid + 1
              /\ usedKeys' = usedKeys \cup
                    { NewJob(uuid + 1, job.asset_id, job.version_id,
                             job.attempt + 1).idempotency_key }
              /\ UNCHANGED dlq
  /\ worker' = [worker EXCEPT ![w] = IdleWorker]
  /\ UNCHANGED << now, dbVars, ingest, faults, published, removals >>
  /\ NoSearch
  /\ UNCHANGED << quietVars, poll, ingestError >>

\* ------------------------------------------------------------------ search
\* a hit carries the rows it was built from, as the query read them
Hit(segment, embedding, matchType) ==
  [segment |-> segment, embedding |-> embedding,
   asset |-> getAsset(segment.asset_id), match_type |-> matchType]

\* text matching of the query against a segment's text
Matches(text, q) == text = q

\* search_keyword(query_text, ...) of the local schema
search_keyword(q) ==
  { s \in transcript_segments :
      \E a \in media_assets :
         /\ s.asset_id = a.asset_id
         /\ s.visibility = "ACTIVE"
         /\ s.version_id = a.current_version_id
         /\ a.tombstone = FALSE
         /\ Matches(s.text, q) }

\* search_semantic(query_embedding, ...) of the local schema: pairs <<e, s>>
search_semantic ==
  { es \in transcript_embeddings \X transcript_segments :
      \E a \in media_assets :
         /\ SameRow(es[1], es[2])
         /\ es[1].asset_id = a.asset_id
         /\ es[1].visibility = "ACTIVE"
         /\ es[2].visibility = "ACTIVE"
         /\ es[1].version_id = a.current_version_id
         /\ a.tombstone = FALSE }

\* mapSearchHit copies no match_type: a hit of this adapter carries no label
PostgresSearchKeyword(q) == { Hit(s, NULL, NONE) : s \in search_keyword(q) }

PostgresSearchSemantic == { Hit(es[2], es[1], NONE) : es \in search_semantic }

\* the key of the merge, `${hit.asset_id}:${hit.start_ms}`; the segments of a
\* transcript start one after the other, so the index stands for start_ms
MergeKey(h) == << h.segment.asset_id, h.segment.segment_id.seg >>

\* PostgresDatabaseAdapter.searchHybrid: the keyword hits, and the semantic
\* hits whose key no keyword hit has (for a shared key the keyword hit stays)
PostgresSearchHybrid(q) ==
  LET kw == PostgresSearchKeyword(q)
      sem == PostgresSearchSemantic
  IN  kw \cup { x \in sem : ~ \E h \in kw : MergeKey(h) = MergeKey(x) }

\* VASTDatabaseAdapter.searchKeyword:
\* SELECT * FROM transcript_segments WHERE visibility = 'ACTIVE' AND text LIKE ...
VASTSearchKeyword(q) ==
  { Hit(s, NULL, "keyword") :
      s \in { r \in transcript_segments : r.visibility = "ACTIVE" /\ Matches(r.text, q) } }

\* VASTDatabaseAdapter.searchSemantic:
\* SELECT * FROM transcript_embeddings WHERE visibility = 'ACTIVE', then
\* getSegmentById for each row
VASTSearchSemantic ==
  { Hit(es[2], es[1], "semantic") :
      es \in { p \in transcript_embeddings \X transcript_segments :
                 /\ p[1].visibility = "ACTIVE"
                 /\ p[2].segment_id = p[1].segment_id } }

\* VASTDatabaseAdapter.searchHybrid: merged by segment_id. The keyword hits
\* go into the map first; a semantic hit whose segment is in the map marks
\* that hit hybrid, and one whose segment is not is added, marked hybrid too
VASTSearchHybrid(q) ==
  LET kw == VASTSearchKeyword(q)
      sem == VASTSearchSemantic
  IN  { IF \E x \in sem : x.segment.segment_id = h.segment.segment_id
        THEN [h EXCEPT !.match_type = "hybrid"] ELSE h : h \in kw }
      \cup { [x EXCEPT !.match_type = "hybrid"] :
               x \in { y \in sem :
                         ~ \E h \in kw : h.segment.segment_id = y.segment.segment_id } }

SearchResponse(backend, type, q) ==
  CASE backend = "local" /\ type = "keyword" -> PostgresSearchKeyword(q)
    [] backend = "local" /\ type = "semantic" -> PostgresSearchSemantic
    [] backend = "local" /\ type = "hybrid" -> PostgresSearchHybrid(q)
    [] backend = "vast" /\ type = "keyword" -> VASTSearchKeyword(q)
    [] backend = "vast" /\ type = "semantic" -> VASTSearchSemantic
    [] OTHER -> VASTSearchHybrid(q)

\* SearchService.search: one request, answered from the current rows
Search(backend, type, q) ==
  /\ lastSearch' = SearchResponse(backend, type, q)
  /\ UNCHANGED << now, uuid, dbVars, queue, dlq, ingest, worker, faults,
                  removals, published >>
  /\ UNCHANGED ingestEnv

\* ------------------------------------------------------------ TriageService
\* the limit skipAsset passes to getDLQItems
ListLimit == 1000

\* SELECT * FROM dlq_items ORDER BY created_at DESC LIMIT $1
getDLQItems(limit) ==
  { i \in dlq_items :
      Cardinality({ j \in dlq_items : j.created_at > i.created_at }) < limit }

\* DELETE FROM dlq_items WHERE dlq_id = $1
removeDLQItem(items, dlqId) == { i \in items : i.dlq_id # dlqId }

QuarantinedAsset(asset) ==
  [asset_id |-> asset.asset_id, object_key |-> asset.object_key,
   triage_state |-> asset.triage_state,
   recommended_action |-> asset.recommended_action,
   last_error |-> asset.last_error, attempt |-> asset.attempt]

\* TriageService.listQuarantined(limit, state): the assets of the rows of
\* dlq_items that are QUARANTINED; state = NONE stands for no state filter
listQuarantined(limit, state) ==
  LET assetIds == { i.asset_id : i \in getDLQItems(limit) }
      assets == { getAsset(id) : id \in assetIds } \ {NULL}
  IN  { QuarantinedAsset(a) :
          a \in { x \in assets : /\ x.status = "QUARANTINED"
                                  /\ (state = NONE \/ x.triage_state = state) } }

\* the job retryAsset builds: attempt 0 and the key
\* `${assetId}:${versionId}:retry:${Date.now()}`
RetryJob(jobId, assetId, versionId, t) ==
  [job_id |-> jobId, asset_id |-> assetId, version_id |-> versionId,
   attempt |-> 0,
   idempotency_key |-> << assetId, versionId, "retry", t >>]

TriageCall(op, assetId, error) ==
  [op |-> op, asset_id |-> assetId, error |-> error, calls |-> triage.calls + 1]

NOT_QUARANTINED == "is not quarantined"
NO_VERSION == "has no version to retry"
NOT_IMPLEMENTED == "[VAST] getDLQItems not implemented - configure VAST credentials"
SKIPPED_BY_OPERATOR == "Skipped by operator"

\* the reasons an operator gives to skipAsset; NONE stands for no reason
Reasons == {NONE, "bad media"}

\* TriageService.retryAsset(assetId) at the time t, on a database adapter
RetryAsset(backend, assetId, t) ==
  /\ triage.calls < MaxTriage
  /\ t = now \/ t = now + 1
  /\ now' = t
  /\ LET asset == getAsset(assetId)
         versionId == asset.current_version_id
         job == RetryJob(uuid + 1, assetId, versionId, t)
         options == [triageState |-> NONE, lastError |-> NONE, attempt |-> 0]
     IN  IF asset.status # "QUARANTINED"
         THEN /\ triage' = TriageCall("retryAsset", assetId, NOT_QUARANTINED)
              /\ UNCHANGED << media_assets, queue, uuid, usedKeys >>
         ELSE IF versionId = NULL
         THEN /\ triage' = TriageCall("retryAsset", assetId, NO_VERSION)
              /\ UNCHANGED << media_assets, queue, uuid, usedKeys >>
         ELSE /\ media_assets' =
                    IF backend = "local"
                    THEN updateAssetStatus(assetId, "PENDING_RETRY", options)
                    ELSE VASTUpdateAssetStatus(assetId, "PENDING_RETRY", options)
              /\ queue' = enqueueJob(job)
              /\ uuid' = uuid + 1
              /\ usedKeys' = usedKeys \cup {job.idempotency_key}
              /\ triage' = TriageCall("retryAsset", assetId, NONE)
  /\ UNCHANGED << asset_versions, transcript_segments, transcript_embeddings,
                  dlq, ingest, worker, faults, removals, published >>
  /\ NoSearch
  /\ UNCHANGED << store, knownObjects, duplicates, dlq_items, pauseVars,
                  poll, ingestError >>

\* TriageService.skipAsset(assetId, reason) on a database adapter: the VAST
\* adapter's getDLQItems throws after the asset was updated
SkipAsset(backend, assetId, reason) ==
  /\ triage.calls < MaxTriage
  /\ LET options == [lastError |-> IF reason = NONE THEN SKIPPED_BY_OPERATOR
                                   ELSE reason,
                     triageState |-> NONE]
         mine == { i \in getDLQItems(ListLimit) : i.asset_id = assetId }
     IN  IF backend = "local"
         THEN /\ media_assets' = updateAssetStatus(assetId, "FAILED", options)
              /\ dlq_items' = { i \in dlq_items : i \notin mine }
              /\ triage' = TriageCall("skipAsset", assetId, NONE)
         ELSE /\ media_assets' = VASTUpdateAssetStatus(assetId, "FAILED", options)
              /\ UNCHANGED dlq_items
              /\ triage' = TriageCall("skipAsset", assetId, NOT_IMPLEMENTED)
  /\ UNCHANGED << now, uuid, asset_versions, transcript_segments,
                  transcript_embeddings, queue, dlq, ingest, worker, faults,
                  removals, published >>
  /\ NoSearch
  /\ UNCHANGED << store, knownObjects, duplicates, usedKeys, pauseVars,
                  poll, ingestError >>

\* ----------------------------------------------------------- specification
CreatedSteps ==
  \/ \E h \in Handlers : ObjectCreated_GetAssetByKey(h)
  \/ \E h \in Handlers : ObjectCreated_CheckVersion(h)
  \/ \E h \in Handlers : ObjectCreated_CreateVersion(h)
  \/ \E h \in Handlers : ObjectCreated_EnqueueJob(h)

Created ==
  \/ \E h \in Handlers, k \in Keys, o \in Objects, t \in 0..MaxClock :
        ObjectCreated_Start(h, k, o, t) /\ UNCHANGED poll
  \/ CreatedSteps

RemovedSteps ==
  \/ \E h \in Handlers : ObjectRemoved_Tombstone(h)
  \/ \E h \in Handlers : ObjectRemoved_SoftDeleteSegments(h)
  \/ \E h \in Handlers : ObjectRemoved_SoftDeleteEmbeddings(h)

Removed ==
  \/ \E h \in Handlers, k \in MediaKeys : ObjectRemoved_Start(h, k) /\ UNCHANGED poll
  \/ RemovedSteps

Orchestrator(W) ==
  \/ \E w \in W : Consume(w)
  \/ \E w \in W : ProcessJob_SetTranscribing(w)
  \/ \E w \in W, segs \in ASRResults : ProcessJob_Transcribe(w, segs)
  \/ \E w \in W : ProcessJob_UpsertEmbeddings(w)
  \/ \E w \in W : Publish_GetAsset(w)
  \/ \E w \in W : Publish_ArchiveSegments(w)
  \/ \E w \in W : Publish_ArchiveEmbeddings(w)
  \/ \E w \in W : Publish_PromoteSegments(w)
  \/ \E w \in W : Publish_PromoteEmbeddings(w)
  \/ \E w \in W : Publish_SetCurrentVersion(w)
  \/ \E w \in W : Publish_SetIndexed(w)
  \/ \E w \in W : ProcessJob_Ack(w)

Failures(W) ==
  \/ \E w \in W : Fail(w, MaxFaults)
  \/ \E w \in W : HandleJobError_UpdateAsset(w)
  \/ \E w \in W : HandleJobError_Queue(w)

Searches ==
  \E b \in {"local", "vast"}, t \in {"keyword", "semantic", "hybrid"}, q \in Texts :
     Search(b, t, q)

\* ingest of uploads and overwrites with the orchestrator's concurrent workers
Next == Created \/ Orchestrator(Workers)

Spec == Init /\ [][Next]_vars

\* uploads, removals and searches around one worker
NextRemove == Created \/ Removed \/ Orchestrator({1}) \/ Searches

SpecRemove == Init /\ [][NextRemove]_vars

\* failing jobs and their retries on one worker
NextFail == Created \/ Orchestrator({1}) \/ Failures({1})

SpecFail == Init /\ [][NextFail]_vars

\* a job that fails again and again on one worker, up to the DLQ
Retries(W) ==
  \/ \E w \in W : Fail(w, MaxRetryFaults)
  \/ \E w \in W : HandleJobError_UpdateAsset(w)
  \/ \E w \in W : HandleJobError_Queue(w)

NextRetry == Created \/ Orchestrator({1}) \/ Retries({1})

SpecRetry == Init /\ [][NextRetry]_vars

\* jobs that run for longer than the job timeout on one worker
Timeouts(W) == \E w \in W : Timeout(w)

NextTimeout == Created \/ Orchestrator({1}) \/ Timeouts({1})

SpecTimeout == Init /\ [][NextTimeout]_vars

\* producers of jobs that enqueue a key twice
Producers ==
  \E q \in queue, rebuilt \in BOOLEAN : EnqueueJob_SameKey(q.job, rebuilt)

NextQueue == Created \/ Orchestrator(Workers) \/ Producers

SpecQueue == Init /\ [][NextQueue]_vars

\* the orchestrator on the VAST adapter: its gate is the VAST adapter's, its
\* other statements are those of processJob and publishVersion
VASTOrchestrator(W) ==
  \/ \E w \in W : VASTConsume(w)
  \/ \E w \in W : ProcessJob_SetTranscribing(w)
  \/ \E w \in W, segs \in ASRResults : ProcessJob_Transcribe(w, segs)
  \/ \E w \in W : ProcessJob_UpsertEmbeddings(w)
  \/ \E w \in W : Publish_GetAsset(w)
  \/ \E w \in W : Publish_ArchiveSegments(w)
  \/ \E w \in W : Publish_ArchiveEmbeddings(w)
  \/ \E w \in W : Publish_PromoteSegments(w)
  \/ \E w \in W : Publish_PromoteEmbeddings(w)
  \/ \E w \in W : Publish_SetCurrentVersion(w)
  \/ \E w \in W : Publish_SetIndexed(w)
  \/ \E w \in W : ProcessJob_Ack(w)

\* one worker on the VAST adapter, with producers that enqueue a key twice
NextVast == Created \/ VASTOrchestrator({1}) \/ Producers

SpecVast == Init /\ [][NextVast]_vars

\* the operator's calls of the triage service
Triage ==
  \/ \E b \in {"local", "vast"}, a \in media_assets, t \in 0..MaxClock :
        RetryAsset(b, a.asset_id, t)
  \/ \E b \in {"local", "vast"}, a \in media_assets, r \in Reasons :
        SkipAsset(b, a.asset_id, r)

\* one worker, one injected failure, and the triage service
NextTriage == Created \/ Orchestrator({1}) \/ Failures({1}) \/ Triage

SpecTriage == Init /\ [][NextTriage]_vars

\* the operator pauses and resumes the orchestrator around one worker
Pauses ==
  \/ pause
  \/ resume
  \/ \E w \in {1} : ProcessJob_Paused(w)

NextPause == Created \/ Orchestrator({1}) \/ Pauses

SpecPause == Init /\ [][NextPause]_vars

\* one upload, its failing jobs and the operator's retries, around one worker
\* whose database adapter is the VAST one
KeyIngest ==
  \/ \E h \in Handlers, k \in MediaKeys, o \in Objects :
        asset_versions = {} /\ ObjectCreated_Start(h, k, o, 0) /\ UNCHANGED poll
  \/ CreatedSteps

KeyFailures(W) ==
  \/ \E w \in W : Fail(w, MaxKeyFaults)
  \/ \E w \in W : HandleJobError_UpdateAsset(w)
  \/ \E w \in W : HandleJobError_Queue(w)

KeyTriage ==
  \E b \in {"local", "vast"}, a \in media_assets, t \in 0..MaxClock :
     RetryAsset(b, a.asset_id, t)

NextKeys == KeyIngest \/ VASTOrchestrator({1}) \/ KeyFailures({1}) \/ KeyTriage

SpecKeys == Init /\ [][NextKeys]_vars

\* one object stored under two keys, hello.wav and its copy, and one worker
CopyKeys == {"hello.wav", "copy.wav"}

CopyIngest ==
  \/ \E h \in Handlers, k \in CopyKeys, o \in Objects, t \in 0..MaxClock :
        /\ \A v \in asset_versions : v.etag = o.etag
        /\ ObjectCreated_Start(h, k, o, t)
        /\ UNCHANGED poll
  \/ CreatedSteps

NextCopies == CopyIngest \/ Orchestrator({1}) \/ Searches

SpecCopies == Init /\ [][NextCopies]_vars

\* the bucket, its poller and the handlers the poller calls
Bucket ==
  \/ \E k \in Keys, o \in Objects : PutObject(k, o)
  \/ \E k \in Keys : DeleteObject(k)

Poller ==
  \/ Poll_List
  \/ \E h \in Handlers, t \in 0..MaxClock : Poll_DeliverCreated(h, t)
  \/ \E h \in Handlers : Poll_DeliverRemoved(h)
  \/ Poll_Finish

IngestFailures == \E h \in Handlers : ObjectCreated_Fail(h)

NextPoll == Bucket \/ Poller \/ CreatedSteps \/ RemovedSteps \/ IngestFailures

SpecPoll == Init /\ [][NextPoll]_vars

\* ------------------------------------------------------------------ claims
\* rows of one version of one asset, segments and embeddings
RowsOf(assetId, versionId) ==
  { r \in transcript_segments \cup transcript_embeddings :
      r.asset_id = assetId /\ r.version_id = versionId }

VersionsOf(assetId) == { v \in asset_versions : v.asset_id = assetId }

\* C1: every hit of a keyword, semantic or hybrid search is built from a
\* segment (and embedding) whose visibility is ACTIVE, whose version is the
\* current version of its asset, and whose asset is not tombstoned.
C1_HitsPassAllFilters ==
  \A h \in lastSearch :
     /\ h.segment.visibility = "ACTIVE"
     /\ h.embedding # NULL => h.embedding.visibility = "ACTIVE"
     /\ h.asset # NULL
     /\ h.asset.current_version_id = h.segment.version_id
     /\ h.asset.tombstone = FALSE

\* C2: in every state, an asset whose current_version_id is not null has a
\* version row with that id, that row's publish_state is ACTIVE, and the
\* asset is not tombstoned.
C2_CurrentVersionIsActive ==
  \A a \in media_assets :
     a.current_version_id # NULL =>
        /\ \E v \in asset_versions :
              /\ v.version_id = a.current_version_id
              /\ v.publish_state = "ACTIVE"
        /\ a.tombstone = FALSE

\* C3: in every state, every ACTIVE segment carries the current version of
\* its asset.
C3_ActiveSegmentsAreCurrent ==
  \A s \in transcript_segments :
     s.visibility = "ACTIVE" =>
        \E a \in media_assets :
           a.asset_id = s.asset_id /\ a.current_version_id = s.version_id

\* C4: in every state, at most one version of an asset has publish_state
\* ACTIVE.
C4_AtMostOneActiveVersion ==
  \A v1 \in asset_versions, v2 \in asset_versions :
     ( /\ v1.asset_id = v2.asset_id
       /\ v1.publish_state = "ACTIVE"
       /\ v2.publish_state = "ACTIVE" ) => v1 = v2

\* C4 witness: two versions of one asset have both been published
C4_TwoVersionsPublished ==
  \E a \in media_assets :
     /\ a.current_version_id # NULL
     /\ Cardinality(VersionsOf(a.asset_id)) >= 2
     /\ \A v \in VersionsOf(a.asset_id) :
           \E i \in 1..Len(published) : published[i].version_id = v.version_id

\* C5: a reader never observes two versions of an asset with ACTIVE rows at
\* once, nor a current_version_id whose version has a row that is not ACTIVE.
C5_CutoverIsAtomic ==
  \A a \in media_assets :
     /\ \A r1 \in transcript_segments \cup transcript_embeddings,
           r2 \in transcript_segments \cup transcript_embeddings :
           ( /\ r1.asset_id = a.asset_id /\ r2.asset_id = a.asset_id
             /\ r1.visibility = "ACTIVE" /\ r2.visibility = "ACTIVE" )
           => r1.version_id = r2.version_id
     /\ a.current_version_id # NULL =>
           \A r \in RowsOf(a.asset_id, a.current_version_id) : r.visibility = "ACTIVE"

\* a worker is between the first and the last statement of publishVersion
\* for the asset
Publishing(assetId) ==
  \E w \in Workers :
     worker[w].pc \in PublishPcs /\ worker[w].job.asset_id = assetId

\* the publishes of the asset that completed, as positions of the log
PublishesOf(assetId) ==
  { i \in 1..Len(published) : published[i].asset_id = assetId }

\* C6: once the publishes of an asset have completed, current_version_id is
\* the version of the publish that committed last, the rows of that version
\* are ACTIVE and the rows of every other version are not.
C6_LastCommitterWins ==
  \A a \in media_assets :
     (PublishesOf(a.asset_id) # {} /\ ~ Publishing(a.asset_id)) =>
        LET last == published[CHOOSE i \in PublishesOf(a.asset_id) :
                                 \A j \in PublishesOf(a.asset_id) : j <= i].version_id
        IN  /\ a.current_version_id = last
            /\ \A r \in transcript_segments \cup transcript_embeddings :
                  r.asset_id = a.asset_id =>
                     (r.visibility = "ACTIVE" <=> r.version_id = last)

\* C7: in every state, an embedding has the visibility and the version of the
\* segment with its segment_id.
C7_EmbeddingMirrorsSegment ==
  \A e \in transcript_embeddings, s \in transcript_segments :
     e.segment_id = s.segment_id =>
        e.visibility = s.visibility /\ e.version_id = s.version_id

\* C8: a retry job leaves the queue unprocessed (acknowledged by the
\* idempotency gate while still waiting) only if its version was published,
\* and until the publish completes the version's rows are STAGING.
C8_FailedPublishIsRetried ==
  [][ \A j \in queue :
        ( /\ j.state = "waiting"
          /\ j.job.attempt > 0
          /\ ~ \E q \in queue' : q.job.job_id = j.job.job_id )
        => \E i \in 1..Len(published) : published[i].version_id = j.job.version_id
    ]_vars

\* C9: an asset never has two version rows created for the same
\* (etag, size, modification time).
C9_ReingestIsNoOp ==
  \A v1 \in asset_versions, v2 \in asset_versions :
     ( /\ v1.asset_id = v2.asset_id
       /\ v1.etag = v2.etag
       /\ v1.file_size = v2.file_size
       /\ v1.version_id.hash = v2.version_id.hash ) => v1 = v2

\* C10: the version id a handler computes for (etag, size, modification time)
\* is the id every earlier computation for the same three inputs produced.
C10_VersionIdIsDeterministic ==
  \A h \in Handlers :
     ingest[h].versionId # NULL =>
        \A v \in asset_versions :
           ( /\ v.etag = ingest[h].metadata.etag
             /\ v.file_size = ingest[h].metadata.size
             /\ v.version_id.hash = ingest[h].versionId.hash )
           => v.version_id = ingest[h].versionId

\* C11: the queue never holds two jobs with the same idempotency key, waiting
\* or being processed: an enqueue under a key that is already there is a
\* no-op.
C11_OneJobPerIdempotencyKey ==
  \A q1 \in queue, q2 \in queue :
     q1.job.idempotency_key = q2.job.idempotency_key => q1 = q2


\* C12: when handling an ObjectCreated event fails, at whatever step, nothing the
\* event wrote remains: the version row it created is gone, and so is the asset
\* row when the event created the asset.
C12_FailedIngestLeavesNothing ==
  [][ \A h \in Handlers :
        (ingest[h].pc # "idle" /\ ingest'[h].pc = "idle" /\ ingestError'[h] # NONE) =>
          /\ ingest[h].pc = "enqueueJob" =>
                ~ \E v \in asset_versions' : v.version_id = ingest[h].versionId
          /\ ingest[h].inserted =>
                ~ \E a \in media_assets' : a.object_key = ingest[h].key ]_vars

\* C13: once a polling round that listed the bucket as it is now has completed,
\* every media object in the bucket has been handled successfully (a version row
\* records its content) and every removed media object has had its removal
\* handled (its asset is tombstoned): no creation, overwrite or removal is
\* acknowledged unhandled.
C13_AcknowledgedMeansHandled ==
  (poll.pc = "idle" /\ poll.currentObjects = listObjects
     /\ knownObjects = { x.key : x \in listObjects }) =>
    \A k \in MediaKeys :
       IF store[k] # NULL
       THEN \E a \in media_assets, v \in asset_versions :
               /\ a.object_key = k
               /\ v.asset_id = a.asset_id
               /\ v.etag = store[k].etag
               /\ v.file_size = store[k].size
       ELSE \A a \in media_assets : a.object_key = k => a.tombstone


\* C14: a search that runs after the removal of an asset's object has been
\* handled (the asset is tombstoned and no handler is still inside the removal)
\* returns no hit of that asset, whatever jobs of the asset were queued or in
\* flight at the removal.
C14_NoHitsAfterRemoval ==
  \A hit \in lastSearch, a \in media_assets :
     (a.asset_id = hit.segment.asset_id /\ a.tombstone) =>
        \E h \in Handlers :
           /\ ingest[h].pc \in {"tombstoneAsset", "softDeleteSegments", "softDeleteEmbeddings"}
           /\ ingest[h].asset.asset_id = a.asset_id


\* C15: when the handling of an ObjectRemoved event of an existing asset
\* returns, the asset is tombstoned, its current_version_id is null, its status
\* is DELETED, and every segment and every embedding of the asset is
\* SOFT_DELETED.
C15_RemovalPostcondition ==
  [][ \A h \in Handlers :
        (ingest[h].pc = "softDeleteEmbeddings" /\ ingest'[h].pc = "idle") =>
          /\ \A a \in media_assets' :
                a.asset_id = ingest[h].asset.asset_id =>
                   /\ a.tombstone
                   /\ a.current_version_id = NULL
                   /\ a.status = "DELETED"
          /\ \A s \in transcript_segments' :
                s.asset_id = ingest[h].asset.asset_id => s.visibility = "SOFT_DELETED"
          /\ \A e \in transcript_embeddings' :
                e.asset_id = ingest[h].asset.asset_id => e.visibility = "SOFT_DELETED" ]_vars

\* C16: DELETED and FAILED are terminal: no step changes the status of an asset
\* whose status is DELETED or FAILED.
C16_TerminalStatusStays ==
  [][ \A a \in media_assets :
        a.status \in {"DELETED", "FAILED"} =>
           \A b \in media_assets' : b.asset_id = a.asset_id => b.status = a.status ]_vars


\* the step in which handleJobError of worker w returns
HandleJobErrorReturns(w) ==
  worker[w].pc = "handleJobError_queue" /\ worker'[w].pc = "idle"

\* the jobs of a queue that belong to the asset and version of a job
JobsLike(q, job) ==
  { x.job : x \in { y \in q : /\ y.job.asset_id = job.asset_id
                              /\ y.job.version_id = job.version_id } }

Enqueued == { x \in queue' : x.job \notin { y.job : y \in queue } }

HandleJobErrorUpdates(w) ==
  worker[w].pc = "handleJobError" /\ worker'[w].pc = "handleJobError_queue"

\* what handleJobError does to the queues for a job that failed with an error
\* that is not retryable: no job is enqueued, the job is gone from the queue,
\* and the DLQ holds exactly one item of the job
NoRetryOneDLQItem(w) ==
  (HandleJobErrorReturns(w) /\ ~ isRetryableError(worker[w].error)) =>
     /\ Enqueued = {}
     /\ JobsLike(queue', worker[w].job) = {}
     /\ Cardinality({ d \in dlq' : d.job.job_id = worker[w].job.job_id }) = 1

\* C20: for a job that failed with a non-retryable error, handleJobError
\* enqueues no retry, records exactly one DLQ item of the job, and sets the
\* asset QUARANTINED with the asset's attempt count one more than it was.
C20_AssetAttemptIncremented ==
  [][ \A w \in Workers :
        /\ NoRetryOneDLQItem(w)
        /\ (HandleJobErrorUpdates(w) /\ ~ isRetryableError(worker[w].error)) =>
              \A a \in media_assets, b \in media_assets' :
                 (a.asset_id = worker[w].job.asset_id /\ b.asset_id = a.asset_id) =>
                    /\ b.status = "QUARANTINED"
                    /\ b.attempt = a.attempt + 1 ]_vars

\* what of C20 the code does: for a job that failed with a non-retryable error,
\* handleJobError enqueues no retry, records exactly one DLQ item of the job,
\* and sets the asset QUARANTINED with the asset's attempt count set to the
\* attempt of the failed job plus one, whatever the count was.
C20_QuarantinedWithJobAttempt ==
  [][ \A w \in Workers :
        /\ NoRetryOneDLQItem(w)
        /\ (HandleJobErrorUpdates(w) /\ ~ isRetryableError(worker[w].error)) =>
              \A b \in media_assets' :
                 b.asset_id = worker[w].job.asset_id =>
                    /\ b.status = "QUARANTINED"
                    /\ b.attempt = worker[w].job.attempt + 1 ]_vars

\* a job that failed with a non-retryable error is in the DLQ, its asset is
\* QUARANTINED
C20_TerminalFailureInDLQ ==
  \E d \in dlq, a \in media_assets :
     /\ ~ isRetryableError(d.error_message)
     /\ a.asset_id = d.job.asset_id
     /\ a.status = "QUARANTINED"
     /\ a.attempt = d.job.attempt + 1


\* C19: a retry that waits in the queue, scheduled after a job with attempt a
\* failed (the retry has attempt a + 1), is delayed by a value in
\* [0.75 * d, 1.25 * d] with d = min(BASE_DELAY_MS * 2^a, MAX_DELAY_MS).
C19_DelayFollowsFailedAttempt ==
  \A x \in queue :
     (x.state = "waiting" /\ x.job.attempt > 0) =>
        LET a == x.job.attempt - 1
            d == Min(BASE_DELAY_MS * 2 ^ a, MAX_DELAY_MS)
        IN  3 * d <= 4 * x.delay /\ 4 * x.delay <= 5 * d


\* the kind of an error in the specification's classification
ErrorKind(message) ==
  IF message \in {"ASR failed: unsupported codec", "ASR failed: unsupported media format"}
  THEN "MEDIA_FORMAT"
  ELSE IF message = "ASR failed: engine busy" THEN "TRANSIENT_RESOURCE"
  ELSE IF message = NO_SUCH_KEY THEN "PERMANENT_DOWNSTREAM"
  ELSE "TRANSIENT_NETWORK"

\* the triage state the specification's table assigns to a kind
TriageOfKind(kind) ==
  CASE kind = "MEDIA_FORMAT" -> "NEEDS_MEDIA_FIX"
    [] kind = "ENGINE_CONFIG" -> "NEEDS_ENGINE_TUNING"
    [] OTHER -> "QUARANTINED"

\* C21: a quarantined asset carries the triage state that the classification
\* table assigns to the kind of its last error: NEEDS_MEDIA_FIX for a media
\* format error, QUARANTINED for a permanent downstream error and for a
\* transient error whose retries are exhausted.
C21_TriageStateFollowsKind ==
  \A a \in media_assets :
     a.status = "QUARANTINED" => a.triage_state = TriageOfKind(ErrorKind(a.last_error))


\* C22: when handleJobError returns, in the retry case and in the DLQ case, the
\* failed job is in the queue no more, waiting or active, and what the step
\* enqueued is at most one job, the retry of the failed one; a job with a new
\* job_id is the only thing that can be delivered for the failure.
C22_FailedJobIsAcknowledged ==
  [][ \A w \in Workers :
        HandleJobErrorReturns(w) =>
          /\ \A x \in queue' : x.job.job_id # worker[w].job.job_id
          /\ Cardinality(Enqueued) <= 1
          /\ \A x \in Enqueued :
                /\ x.job.job_id \notin { y.job.job_id : y \in queue }
                /\ x.job.job_id \notin { d.job.job_id : d \in dlq' }
                /\ x.job.asset_id = worker[w].job.asset_id
                /\ x.job.version_id = worker[w].job.version_id
                /\ x.job.attempt = worker[w].job.attempt + 1 ]_vars

\* a retry has failed for good: the DLQ holds a job that was itself a retry, and
\* the queue holds neither it nor a job of its version
C22_RetriedThenDeadLettered ==
  \E d \in dlq :
     /\ d.job.attempt > 0
     /\ JobsLike(queue, d.job) = {}


\* C23: once a job has exceeded its timeout, the next thing its worker does is
\* to give the job back: the database is left as it is, the job is waiting in
\* the queue again and the worker is free.
C23_TimedOutJobIsNacked ==
  [][ \A w \in Workers :
        (worker[w].timedOut /\ worker'[w] # worker[w]) =>
          /\ dbVars' = dbVars
          /\ worker'[w] = IdleWorker
          /\ \E x \in queue' :
                x.job.job_id = worker[w].job.job_id /\ x.state = "waiting" ]_vars


\* the step in which processJob of worker w returns after a successful publish
ProcessJobCompletes(w) == worker[w].pc = "ackJob" /\ worker'[w].pc = "idle"

\* C24: when the job that follows three retryable failures in a row (the job
\* with attempt 3) completes, three retries and no more have been enqueued for
\* its version (none is left in the queue, none is in the DLQ), the asset's
\* status is INDEXED and exactly one version of the asset is ACTIVE.
C24_ThirdRetrySucceeds ==
  [][ \A w \in Workers :
        (ProcessJobCompletes(w) /\ worker[w].job.attempt = 3) =>
          /\ JobsLike(queue', worker[w].job) = {}
          /\ \A d \in dlq' : d.job.version_id # worker[w].job.version_id
          /\ \A a \in media_assets' :
                a.asset_id = worker[w].job.asset_id => a.status = "INDEXED"
          /\ Cardinality({ v \in asset_versions' :
                             /\ v.asset_id = worker[w].job.asset_id
                             /\ v.publish_state = "ACTIVE" }) = 1 ]_vars


\* the step in which publishVersion of worker w completes
PublishCompletes(w) == worker[w].pc = "publish_setIndexed" /\ worker'[w].pc = "ackJob"

\* the visibilities of the segments and embeddings of a version, after the step
VisibilitiesAfter(assetId, versionId) ==
  { s.visibility : s \in { x \in transcript_segments' :
                             x.asset_id = assetId /\ x.version_id = versionId } }
  \cup
  { e.visibility : e \in { x \in transcript_embeddings' :
                             x.asset_id = assetId /\ x.version_id = versionId } }

\* C25: when the publish of version v completes and the publish found the
\* asset's current_version_id at a different version u, every segment and
\* embedding of u is ARCHIVED, every segment and embedding of v is ACTIVE, and
\* the asset's current_version_id is v.
C25_PublishReplacesPrevious ==
  [][ \A w \in Workers :
        (/\ PublishCompletes(w)
         /\ worker[w].previousVersionId # NULL
         /\ worker[w].previousVersionId # worker[w].job.version_id) =>
          /\ VisibilitiesAfter(worker[w].job.asset_id, worker[w].previousVersionId)
                \subseteq {"ARCHIVED"}
          /\ VisibilitiesAfter(worker[w].job.asset_id, worker[w].job.version_id)
                \subseteq {"ACTIVE"}
          /\ \A a \in media_assets' :
                a.asset_id = worker[w].job.asset_id =>
                   a.current_version_id = worker[w].job.version_id ]_vars


\* worker w is inside publishVersion, past its first statement, for a version
\* that the first statement found to be the asset's current version, and the
\* version has rows and all of them are ACTIVE
RepublishingActive(w) ==
  /\ worker[w].pc \in PublishPcs \ {"publish_getAsset"}
  /\ worker[w].previousVersionId = worker[w].job.version_id
  /\ RowsOf(worker[w].job.asset_id, worker[w].job.version_id) # {}
  /\ \A r \in RowsOf(worker[w].job.asset_id, worker[w].job.version_id) :
        r.visibility = "ACTIVE"
  /\ getAsset(worker[w].job.asset_id).current_version_id = worker[w].job.version_id

\* C26: publishing a version that is already the asset's ACTIVE current
\* version is a no-op: no statement of the publish changes a segment, an
\* embedding, the current_version_id or the asset status, so the version's
\* rows never stop being ACTIVE during it.
C26_RepublishIsNoOp ==
  [][ \A w \in Workers :
        (RepublishingActive(w) /\ worker'[w] # worker[w]) =>
          /\ transcript_segments' = transcript_segments
          /\ transcript_embeddings' = transcript_embeddings
          /\ \A a \in media_assets : \A b \in media_assets' :
                (a.asset_id = worker[w].job.asset_id /\ b.asset_id = a.asset_id) =>
                   /\ b.current_version_id = a.current_version_id
                   /\ b.status = a.status ]_vars


\* the step in which worker w has stored the segments and the embeddings of
\* its run and marks the version TRANSCRIBED
RunStored(w) ==
  worker[w].pc = "upsertEmbeddings" /\ worker'[w].pc = "publish_getAsset"

\* the segment ids one run with the ASR result of worker w stores
RunSegmentIds(w) ==
  { SegmentId(worker[w].job.version_id, i - 1) : i \in 1..Len(worker[w].segments) }

\* C27: when a run of the orchestrator on a version has stored its segments
\* and embeddings, the segment ids stored for the version, and the segment ids
\* of the embeddings stored for it, are exactly those of this one run, whether
\* or not the version was run before: no additional and no left-over rows.
C27_RerunLeavesSameRows ==
  [][ \A w \in Workers :
        RunStored(w) =>
          /\ { s.segment_id : s \in { x \in transcript_segments' :
                   x.asset_id = worker[w].job.asset_id
                   /\ x.version_id = worker[w].job.version_id } } = RunSegmentIds(w)
          /\ { e.segment_id : e \in { x \in transcript_embeddings' :
                   x.asset_id = worker[w].job.asset_id
                   /\ x.version_id = worker[w].job.version_id } } = RunSegmentIds(w) ]_vars


\* no job of the version waits in the queue or is in the hands of a worker
AllJobsFinished(versionId) ==
  /\ \A j \in queue : j.job.version_id # versionId
  /\ \A w \in Workers : worker[w].pc # "idle" => worker[w].job.version_id # versionId

\* the publishes of the version that completed, as positions of the log
PublishesOfVersion(versionId) ==
  { i \in 1..Len(published) : published[i].version_id = versionId }

\* the state one job leaves for the only version of an asset: the version is
\* TRANSCRIBED and current, the asset is INDEXED, every segment and embedding
\* of the version is ACTIVE, and the segments are those of the embeddings
SingleJobFinalState(a, v) ==
  /\ v.status = "TRANSCRIBED"
  /\ a.current_version_id = v.version_id
  /\ a.status = "INDEXED"
  /\ \A r \in RowsOf(a.asset_id, v.version_id) : r.visibility = "ACTIVE"
  /\ { s.segment_id : s \in { x \in transcript_segments :
           x.asset_id = a.asset_id /\ x.version_id = v.version_id } }
     = { e.segment_id : e \in { x \in transcript_embeddings :
           x.asset_id = a.asset_id /\ x.version_id = v.version_id } }

StagingWrite(w) ==
  /\ worker[w].pc \in {"transcribe", "upsertEmbeddings"}
  /\ worker'[w] # worker[w]
  /\ worker'[w].pc \in {"upsertEmbeddings", "publish_getAsset"}

\* the responses of every search a reader can issue
SearchResponses ==
  [ b \in {"local", "vast"}, t \in {"keyword", "semantic", "hybrid"}, q \in Texts |->
      SearchResponse(b, t, q) ]

\* C29: a write the orchestrator makes before the publish phase (segments and
\* embeddings upserted at STAGING, on a first run or on a re-run of a version)
\* neither adds a hit to nor removes a hit from the response of any search.
C29_StagingWritesAreInvisible ==
  [][ \A w \in Workers : StagingWrite(w) => SearchResponses' = SearchResponses ]_vars

\* the statuses of a version that the gate is to treat as processed
ProcessedStatuses == {"TRANSCRIBED", "INDEXED", "ACTIVE", "ARCHIVED"}

\* C30: when a waiting job is consumed for a version whose status is
\* TRANSCRIBED, INDEXED, ACTIVE or ARCHIVED, the job is acknowledged, the
\* worker stays idle (no ASR call, no embedding call, no publish) and no row
\* of the database is written.
C30_ProcessedVersionIsSkipped ==
  [][ \A j \in queue :
        (/\ j.state = "waiting"
         /\ j \notin queue'
         /\ \E v \in asset_versions :
               v.version_id = j.job.version_id /\ v.status \in ProcessedStatuses) =>
          /\ queue' = ackJob(queue, j.job.job_id)
          /\ worker' = worker
          /\ UNCHANGED dbVars ]_vars


\* the step in which handleObjectCreated of handler h returns after it
\* created a version and enqueued its job
ObjectCreatedReturns(h) == ingest[h].pc = "enqueueJob" /\ ingest'[h].pc = "idle"

\* C31: when handleObjectCreated has ingested an object under the key of a
\* tombstoned asset, there is a new asset for the key (another asset_id, not
\* tombstoned) that carries the lineage_id of the tombstoned asset, and the
\* tombstoned row is still there.
C31_ReingestCreatesNewAsset ==
  [][ \A h \in Handlers :
        (/\ ObjectCreatedReturns(h)
         /\ \E t \in media_assets :
               t.object_key = ingest[h].key /\ t.tombstone) =>
          \E t \in media_assets' : \E n \in media_assets' :
             /\ t.object_key = ingest[h].key /\ t.tombstone
             /\ n.object_key = ingest[h].key /\ ~ n.tombstone
             /\ n.asset_id # t.asset_id
             /\ n.lineage_id = t.lineage_id ]_vars


\* no worker holds a job of the asset: the handlers that ran for it returned
NoJobInHand(assetId) ==
  \A w \in Workers : worker[w].pc # "idle" => worker[w].job.asset_id # assetId

\* C32: every asset whose status is QUARANTINED, once the handler that
\* quarantined it has returned, is in the triage listing of quarantined
\* assets, with its triage_state and its recommended_action.
C32_QuarantinedAssetsAreListed ==
  \A a \in media_assets :
     (a.status = "QUARANTINED" /\ NoJobInHand(a.asset_id)) =>
       \E q \in listQuarantined(ListLimit, NONE) :
          /\ q.asset_id = a.asset_id
          /\ q.triage_state = a.triage_state
          /\ q.recommended_action = a.recommended_action


\* the step is a call of the triage operation op for the asset
TriageStep(op, assetId) ==
  /\ triage'.calls = triage.calls + 1
  /\ triage'.op = op
  /\ triage'.asset_id = assetId

\* the versions of the asset whose jobs were dead-lettered
FailedVersions(assetId) ==
  { d.job.version_id : d \in { x \in dlq : x.job.asset_id = assetId } }

\* the jobs the step adds to the queue
NewJobs == { x.job : x \in queue' } \ { y.job : y \in queue }

\* C33: retryAsset, applied to an asset whose status is QUARANTINED, adds one
\* job to the queue, for the version that failed, with attempt 0 and an
\* idempotency key no job had before; it sets the asset's triage_state and
\* last_error to null and its status to PENDING_RETRY.
C33_RetryCreatesFreshJob ==
  [][ \A a \in media_assets :
        (/\ TriageStep("retryAsset", a.asset_id)
         /\ a.status = "QUARANTINED"
         /\ FailedVersions(a.asset_id) # {}) =>
          /\ Cardinality(NewJobs) = 1
          /\ \A j \in NewJobs :
                /\ j.asset_id = a.asset_id
                /\ j.version_id \in FailedVersions(a.asset_id)
                /\ j.attempt = 0
                /\ j.idempotency_key \notin usedKeys
          /\ \A b \in media_assets' :
                b.asset_id = a.asset_id =>
                   /\ b.triage_state = NONE
                   /\ b.last_error = NONE
                   /\ b.status = "PENDING_RETRY" ]_vars


\* C34: skipAsset, applied to an asset whose job was dead-lettered, sets the
\* asset's status to FAILED, leaves its last_error as it was, and leaves no
\* dead-letter entry of the asset, in the dead-letter queue or in dlq_items.
C34_SkipFailsAndRemovesEntry ==
  [][ \A a \in media_assets :
        (/\ TriageStep("skipAsset", a.asset_id)
         /\ a.status = "QUARANTINED"
         /\ FailedVersions(a.asset_id) # {}) =>
          /\ \A b \in media_assets' :
                b.asset_id = a.asset_id =>
                   b.status = "FAILED" /\ b.last_error = a.last_error
          /\ \A d \in dlq' : d.job.asset_id # a.asset_id
          /\ \A i \in dlq_items' : i.asset_id # a.asset_id ]_vars


\* the steps of processJob of worker w between the ASR result and the publish
WritesTranscript(w) ==
  \/ worker[w].pc = "transcribe" /\ worker'[w].pc = "upsertEmbeddings"
  \/ worker[w].pc = "upsertEmbeddings" /\ worker'[w].pc \in {"upsertEmbeddings", "publish_getAsset"}

\* C35: a job whose ASR result is empty writes no segment and no embedding,
\* and it still publishes: when it completes, its version is the asset's
\* current version and the version's publish state is ACTIVE, the asset's
\* status is INDEXED, and the job is no longer in the queue.
C35_EmptyTranscriptPublishes ==
  [][ \A w \in Workers :
        /\ (WritesTranscript(w) /\ worker'[w].segments = << >>) =>
              UNCHANGED << transcript_segments, transcript_embeddings >>
        /\ (ProcessJobCompletes(w) /\ worker[w].segments = << >>) =>
              LET job == worker[w].job IN
              /\ \A a \in media_assets' :
                    a.asset_id = job.asset_id =>
                       a.current_version_id = job.version_id /\ a.status = "INDEXED"
              /\ \A v \in asset_versions' :
                    v.version_id = job.version_id => v.publish_state = "ACTIVE"
              /\ JobsLike(queue', job) = {} ]_vars


\* the queries of a reader: a text some segment has, and one no segment has
Queries == Texts \cup {"agenda"}

\* the label the hit of a segment has to carry in a hybrid response
HybridLabel(backend, q, segmentId) ==
  LET byKeyword == \E k \in SearchResponse(backend, "keyword", q) :
                       k.segment.segment_id = segmentId
      bySemantic == \E x \in SearchResponse(backend, "semantic", q) :
                       x.segment.segment_id = segmentId
  IN  IF byKeyword /\ bySemantic THEN "hybrid"
      ELSE IF byKeyword THEN "keyword" ELSE "semantic"

\* C36: in the response of a hybrid search a hit is labelled hybrid exactly
\* when both the keyword search and the semantic search found its segment,
\* and a hit only one of them found is labelled keyword or semantic after it.
C36_HybridLabelFollowsSources ==
  \A b \in {"local", "vast"}, q \in Queries :
     \A h \in SearchResponse(b, "hybrid", q) :
        h.match_type = HybridLabel(b, q, h.segment.segment_id)


\* the version of the asset's publish that completed last
LastPublished(assetId) ==
  published[CHOOSE i \in PublishesOf(assetId) :
               \A j \in PublishesOf(assetId) : j <= i].version_id

\* C37: whatever the ingest and the processing of a newer version have done
\* so far, and however that processing ended (retry or quarantine included),
\* as long as no publish of the asset is under way the version published last
\* is the asset's current version, its segments and embeddings are ACTIVE, and
\* a keyword search for the text of one of its segments finds that segment.
C37_PublishedVersionStaysServed ==
  \A a \in media_assets :
     (PublishesOf(a.asset_id) # {} /\ ~ Publishing(a.asset_id)) =>
        /\ a.current_version_id = LastPublished(a.asset_id)
        /\ \A r \in RowsOf(a.asset_id, LastPublished(a.asset_id)) :
              r.visibility = "ACTIVE"
        /\ \A s \in transcript_segments :
              (s.asset_id = a.asset_id /\ s.version_id = LastPublished(a.asset_id))
                 => s \in search_keyword(s.text)


\* the step in which processJob of a paused orchestrator returns, for the
\* waiting job j it was given
PausedDelivery(j) ==
  /\ paused
  /\ UNCHANGED << worker, ingest, paused >>
  /\ j.state = "waiting"
  /\ \/ j.job.job_id \in nacked' \ nacked
     \/ nacked' = nacked /\ j \notin queue'

\* C38: when a job is delivered to a paused orchestrator, no row of the
\* database changes, and the job is back in the queue, waiting, with the
\* attempt it had: it is not removed, not failed, and not in the DLQ, so a
\* resumed orchestrator takes it.
C38_PausedJobIsReturned ==
  [][ \A j \in queue :
        PausedDelivery(j) =>
          /\ UNCHANGED dbVars
          /\ j \in queue'
          /\ \A d \in dlq' : d.job.job_id # j.job.job_id ]_vars


\* C39: a job that enters the queue (from the ingest handler, as an automatic
\* retry, from the triage service, or as an automatic retry after a triage
\* retry) carries an idempotency key that no job carried before.
C39_EveryJobHasFreshKey ==
  [][ \A job \in NewJobs : job.idempotency_key \notin usedKeys ]_vars


\* the step in which handleObjectCreated of handler h returns or throws
ObjectCreatedEnds(h) == ingest[h].pc # "idle" /\ ingest'[h].pc = "idle"

\* another key has an asset with a version of the same etag and size
StoredUnderAnotherKey(key, metadata) ==
  \E a \in media_assets, v \in asset_versions :
     /\ a.object_key # key
     /\ v.asset_id = a.asset_id
     /\ v.etag = metadata.etag /\ v.file_size = metadata.size

\* C40: when handleObjectCreated ends for a key that had no version yet,
\* while the same object (same etag, size and modification time) is already
\* ingested under another key, the handler has not failed, and the key has
\* an asset of its own with a version of its own and a job for that version.
C40_CopyIsIngestedSeparately ==
  [][ \A h \in Handlers :
        (/\ ObjectCreatedEnds(h)
         /\ StoredUnderAnotherKey(ingest[h].key, ingest[h].metadata)
         /\ \A a \in media_assets : a.object_key = ingest[h].key =>
               \A v \in VersionsOf(a.asset_id) :
                  v.version_id = ingest[h].versionId) =>
          /\ ingestError'[h] = NONE
          /\ \E a \in media_assets', v \in asset_versions', j \in queue' :
                /\ a.object_key = ingest[h].key
                /\ v.asset_id = a.asset_id
                /\ j.job.asset_id = a.asset_id
                /\ j.job.version_id = v.version_id ]_vars

====
